---- MODULE Spec2Model ----
(***************************************************************************)
(* Model of download_sync_and_embed.py: the subtitle inventory probe       *)
(* (get_embedded_subtitles), the track composition done by                 *)
(* embed_subtitles_into_video, and the batch loop of main.                 *)
(***************************************************************************)
EXTENDS Integers, Sequences, FiniteSets, TLC

\* ------------------------------------------------------------------ bounds
MaxExisting == 3   \* subtitle streams in one container
MaxNew == 2        \* entries of one subtitle_files dictionary

\* ------------------------------------------------------- values and inputs
NoTag == "<no tag>"                        \* a stream without a language tag
RawTags == {"spa", "SPA", "eng", NoTag}   \* what ffprobe reports per stream
NewKeys == {"spa", "eng", "SPA"}           \* keys of subtitle_files
Suffixes == {".mp4", ".MP4", ".mkv", ".avi"}
ProbeOutcomes == {"ok", "nonzero", "notfound", "malformed"}

SeqUpTo(S, n) == UNION {[1..k -> S] : k \in 0..n}

\* a dict[str, Path]: insertion-ordered, keys distinct; exists = sub_path.exists()
SubtitleDicts ==
    {d \in SeqUpTo([lang_code : NewKeys, exists : BOOLEAN], MaxNew) :
        \A i, j \in DOMAIN d : i # j => d[i].lang_code # d[j].lang_code}

\* str.lower() on the strings of the model
Lower(s) ==
    CASE s = "SPA" -> "spa"
      [] s = ".MP4" -> ".mp4"
      [] OTHER -> s

\* ------------------------------------------------- get_embedded_subtitles
\* The value returned for a probe outcome; raised = an exception leaves the
\* function (only CalledProcessError is caught).
get_embedded_subtitles(streams, outcome) ==
    IF outcome = "ok"
    THEN [raised |-> FALSE,
          value |-> [i \in 1..Len(streams) |->
                       [stream_index |-> i - 1,
                        language |-> IF streams[i] = NoTag THEN "und" ELSE streams[i]]]]
    ELSE IF outcome = "nonzero"
    THEN [raised |-> FALSE, value |-> <<>>]
    ELSE [raised |-> TRUE, value |-> <<>>]

\* ------------------------------------------- embed_subtitles_into_video
spanish_is_first_raw(existing) ==
    existing # <<>> /\ existing[1].language = "spa"

spanish_is_first(existing) ==
    existing # <<>> /\ Lower(existing[1].language) = "spa"

early_copy_any_spanish(existing, files) ==
    \/ files = <<>> /\ existing = <<>>
    \/ files = <<>> /\ \E i \in DOMAIN existing : Lower(existing[i].language) = "spa"

\* the two early returns that copy instead of remuxing
early_copy(existing, files) ==
    \/ files = <<>> /\ existing = <<>>
    \/ files = <<>> /\ spanish_is_first(existing)

new_sub_codec_exact(suffix) ==
    IF suffix = ".mp4" THEN "mov_text" ELSE "srt"

new_sub_codec(suffix) ==
    IF Lower(suffix) = ".mp4" THEN "mov_text"
    ELSE IF Lower(suffix) = ".mkv" THEN "srt"
    ELSE "srt"

sub_inputs(files) == SelectSeq(files, LAMBDA e : e.exists)

\* `lang not in subtitle_files` is false: the stream is skipped
superseded_never(lang, files) == FALSE

superseded(lang, files) == \E i \in DOMAIN files : files[i].lang_code = lang

existing_items(existing, files) ==
    LET items == [i \in DOMAIN existing |->
                    [input_idx |-> 0,
                     stream_idx |-> existing[i].stream_index,
                     lang |-> Lower(existing[i].language),
                     is_new |-> FALSE]]
    IN SelectSeq(items, LAMBDA it : ~superseded(it.lang, files))

new_items(files) ==
    LET inputs == sub_inputs(files)
    IN [i \in DOMAIN inputs |->
          [input_idx |-> i, stream_idx |-> 0,
           lang |-> inputs[i].lang_code, is_new |-> TRUE]]

sort_key_no_preference(item) == <<1, item.input_idx, item.stream_idx>>

sort_key_reversed(item) ==
    IF item.lang = "spa"
    THEN <<0, item.input_idx, 0 - item.stream_idx>>
    ELSE <<1, item.input_idx, 0 - item.stream_idx>>

sort_key_stream_first(item) ==
    IF item.lang = "spa"
    THEN <<0, item.stream_idx, item.input_idx>>
    ELSE <<1, item.stream_idx, item.input_idx>>

sort_key(item) ==
    IF item.lang = "spa"
    THEN <<0, item.input_idx, item.stream_idx>>
    ELSE <<1, item.input_idx, item.stream_idx>>

\* tuple comparison of Python, on keys of length 3
KeyLess(a, b) ==
    \/ a[1] < b[1]
    \/ a[1] = b[1] /\ a[2] < b[2]
    \/ a[1] = b[1] /\ a[2] = b[2] /\ a[3] < b[3]

\* list.sort(key=sort_key): stable, an element goes after every element that
\* does not compare greater
RECURSIVE list_sort(_)
list_sort(s) ==
    IF s = <<>> THEN <<>>
    ELSE LET n == Len(s)
             x == s[n]
             front == list_sort(SubSeq(s, 1, n - 1))
             k == Cardinality({i \in DOMAIN front :
                                  ~KeyLess(sort_key(x), sort_key(front[i]))})
         IN SubSeq(front, 1, k) \o <<x>> \o SubSeq(front, k + 1, Len(front))

all_subs_kept(previous) == previous

\* line 354: all_subs = []
all_subs_initial(previous) == <<>>

all_subs_of(existing, files) ==
    list_sort(existing_items(existing, files) \o new_items(files))

plan_is_empty_never(subs) == FALSE

\* line 377: `not all_subs`
plan_is_empty(subs) == subs = <<>>

\* the per-output-stream directives of the ffmpeg command
command_slots(subs, codec) ==
    [i \in DOMAIN subs |->
       [origin |-> IF subs[i].input_idx = 0 THEN "Existing" ELSE "New",
        index |-> IF subs[i].input_idx = 0 THEN subs[i].stream_idx
                  ELSE subs[i].input_idx,
        codec |-> IF subs[i].is_new THEN codec ELSE "copy",
        language |-> subs[i].lang]]

\* ------------------------------------------------------------ file system
TARGET_LANGUAGES == {"spa", "eng"}
VIDEO_EXTENSIONS == {".mp4", ".mkv", ".avi", ".mov", ".wmv", ".webm"}

Names == {"a.mkv", "b.MP4", "c.txt"}
NameOrder == <<"a.mkv", "b.MP4", "c.txt">>     \* the order sorted() gives
Suffix(name) ==
    CASE name = "a.mkv" -> ".mkv"
      [] name = "b.MP4" -> ".MP4"
      [] OTHER -> ".txt"

Absent == [kind |-> "absent", subs |-> <<>>]
Partial == [kind |-> "partial", subs |-> <<>>]      \* what a failed ffmpeg leaves
Original(streams) == [kind |-> "original", subs |-> streams]
Remuxed(slots) ==
    [kind |-> "remuxed", subs |-> [i \in DOMAIN slots |-> slots[i].language]]

Paths == {"target", "Originals"} \X Names

\* is_video_file: a file with a video suffix, in any letter case
is_video_file(f, path) ==
    f[path] # Absent /\ Lower(Suffix(path[2])) \in VIDEO_EXTENSIONS

\* sorted([f for f in target_path.iterdir() if is_video_file(f)])
list_video_files(f) ==
    SelectSeq(NameOrder, LAMBDA n : is_video_file(f, <<"target", n>>))

\* shutil.move onto a file path: the destination is replaced
move(f, src, dst) == [p \in Paths |->
    IF p = dst THEN f[src] ELSE IF p = src THEN Absent ELSE f[p]]

\* shutil.copy2
copy2(f, src, dst) == [p \in Paths |-> IF p = dst THEN f[src] ELSE f[p]]

\* get_subtitle_path: the sidecar of a video, beside it
get_subtitle_path(video_path, lang_code) == <<video_path[1], video_path[2], lang_code>>

Perms(S) == {q \in [1..Cardinality(S) -> S] : \A i, j \in DOMAIN q : i # j => q[i] # q[j]}
SortedLangs(S) == SelectSeq(<<"eng", "spa">>, LAMBDA l : l \in S)

\* {**existing_external, **downloaded}: the sidecars found, in the order the
\* set of missing languages was iterated, then the downloads in sorted order
external_dicts(found_langs, downloaded) ==
    {[i \in 1..(Len(q) + Cardinality(downloaded)) |->
        [lang_code |-> IF i <= Len(q) THEN q[i]
                       ELSE SortedLangs(downloaded)[i - Len(q)],
         exists |-> TRUE]] : q \in Perms(found_langs)}

\* what ffmpeg does to the files, given the finished command
ffmpeg_outcomes(f, out, slots) ==
    { [fs |-> [p \in Paths |-> IF p = out THEN Remuxed(slots) ELSE f[p]],
       status |-> "ok", remux |-> "ok"],
      [fs |-> [p \in Paths |-> IF p = out THEN Partial ELSE f[p]],
       status |-> "failed", remux |-> "failed"],
      [fs |-> f, status |-> "failed", remux |-> "failed"] }

\* embed_subtitles_into_video as one call: every way it can end
embed_subtitles_into_video(f, video_path, output_path, files) ==
    UNION {
      LET r == get_embedded_subtitles(f[video_path].subs, outcome)
          subs == all_subs_of(r.value, files)
      IN IF r.raised
         THEN {[fs |-> f, status |-> "exception", remux |-> "none"]}
         ELSE IF early_copy(r.value, files) \/ plan_is_empty(subs)
         THEN {[fs |-> copy2(f, video_path, output_path),
                status |-> "ok", remux |-> "copy"]}
         ELSE ffmpeg_outcomes(f, output_path,
                command_slots(subs, new_sub_codec(Suffix(video_path[2]))))
      : outcome \in ProbeOutcomes }

\* process_video: every way it can end; srt is the set of sidecar files
process_video(f, srt_files, video_path, output_dir, backup_dir) ==
    UNION {
      LET r == get_embedded_subtitles(f[video_path].subs, outcome)
          embedded_langs == {Lower(r.value[i].language) : i \in DOMAIN r.value}
          found_langs == {l \in TARGET_LANGUAGES \ embedded_langs :
                            get_subtitle_path(video_path, l) \in srt_files}
          missing_langs == (TARGET_LANGUAGES \ embedded_langs) \ found_langs
          output_path == <<output_dir, video_path[2]>>
      IN IF r.raised
         THEN {[fs |-> f, srt |-> srt_files, status |-> "exception",
                has_spanish |-> FALSE, remux |-> "none", out |-> <<>>]}
         ELSE UNION {
           LET saved == srt_files \cup {get_subtitle_path(video_path, l) : l \in downloaded}
               keys == found_langs \cup downloaded
               backed == saved \cup {<<backup_dir, video_path[2], l>> : l \in keys}
           IN IF keys = {}
              THEN IF f[output_path] = Absent
                   THEN {[fs |-> e.fs, srt |-> saved, status |-> e.status,
                          has_spanish |-> "spa" \in embedded_langs, remux |-> e.remux,
                          out |-> output_path]
                         : e \in embed_subtitles_into_video(f, video_path, output_path, <<>>)}
                   ELSE {[fs |-> f, srt |-> saved, status |-> "ok",
                          has_spanish |-> "spa" \in embedded_langs, remux |-> "none",
                          out |-> <<>>]}
              ELSE UNION {
                     {[fs |-> e.fs, srt |-> backed, status |-> e.status,
                       has_spanish |-> ("spa" \in embedded_langs \/ "spa" \in keys),
                       remux |-> e.remux, out |-> output_path]
                      : e \in embed_subtitles_into_video(f, video_path, output_path, files)}
                     : files \in external_dicts(found_langs, downloaded)}
           : downloaded \in SUBSET missing_langs }
      : outcome \in ProbeOutcomes }

\* the directories main passes on (lines 526-527 and 559)
originals_dir == "Originals"
backup_dir_of_main == "Subtitle_Backups"
main_output_in_place == "Originals"
main_output_dir == "target"

exit_code_always_zero(count, n) == 0
exit_code_of(count, n) == IF count = n THEN 0 ELSE 1

\* ------------------------------------------------------- rename_media.py
RENAME_VIDEO_EXTENSIONS == {".mp4", ".mkv", ".avi", ".mov", ".wmv", ".webm", ".m4v"}

\* the file names of the directory that is renamed, in the order sorted() gives
RenameNames == {"a.mkv", "b.mkv", "c.MP4", "T.mkv", "U.mkv", "T.mp4", "n.txt"}
RenameOrder == <<"T.mkv", "T.mp4", "U.mkv", "a.mkv", "b.mkv", "c.MP4", "n.txt">>

\* Path.suffix
suffix_of(name) ==
    CASE name \in {"a.mkv", "b.mkv", "T.mkv", "U.mkv"} -> ".mkv"
      [] name = "c.MP4" -> ".MP4"
      [] name = "T.mp4" -> ".mp4"
      [] OTHER -> ".txt"

NoFile == "-"            \* no file under this name
NoName == "None"         \* unknown media type, or get_new_*_name gave None

\* find_video_files: the video files of the directory, sorted
find_video_files(d) ==
    SelectSeq(RenameOrder,
              LAMBDA n : d[n] # NoFile /\ Lower(suffix_of(n)) \in RENAME_VIDEO_EXTENSIONS)

\* what guessit and get_new_movie_name / get_new_episode_name can give for a
\* file: nothing, or a name that ends in the file's lower-cased suffix
new_names(file_name) ==
    {NoName} \cup {n \in RenameNames : suffix_of(n) = Lower(suffix_of(file_name))}

target_blocked_never(d, new_path, file_path) == FALSE

\* line 212: new_path.exists() and new_path != file_path
target_blocked(d, new_path, file_path) == d[new_path] # NoFile /\ new_path # file_path

\* Path.rename on POSIX: a file at the target is replaced without notice
rename(d, src, dst) == [n \in RenameNames |->
    IF n = dst THEN d[src] ELSE IF n = src THEN NoFile ELSE d[n]]

\* process_file for one file, given the new name and whether rename raises
process_file(d, file_name, new_name, dry, os_error) ==
    IF new_name = NoName
    THEN [dir |-> d, renamed |-> FALSE, verdict |-> "unknown"]
    ELSE IF file_name = new_name
    THEN [dir |-> d, renamed |-> FALSE, verdict |-> "same"]
    ELSE IF target_blocked(d, new_name, file_name)
    THEN [dir |-> d, renamed |-> FALSE, verdict |-> "target exists"]
    ELSE IF dry
    THEN [dir |-> d, renamed |-> TRUE, verdict |-> "dry run"]
    ELSE IF os_error \/ d[file_name] = NoFile
    THEN [dir |-> d, renamed |-> FALSE, verdict |-> "OSError"]
    ELSE [dir |-> rename(d, file_name, new_name), renamed |-> TRUE,
          verdict |-> "renamed"]

\* ------------------------------------------------------------------ state
VARIABLES pc, video_suffix, container_streams, subtitle_files, probe,
          existing_subs, all_subs, cmd_slots, copied, ffmpeg_ran, result, prev,
          fs, srt, mpc, video_files, idx, success_count,
          exit_code, found, attempted, outcomes, first_original, last,
          rpc, directory, directory_before, dry_run, renamed_files, ridx,
          renamed_count, attempt

callVars == <<pc, video_suffix, container_streams, subtitle_files, probe,
              existing_subs, all_subs, cmd_slots, copied, ffmpeg_ran, result, prev>>

mainVars == <<fs, srt, mpc, video_files, idx, success_count,
              exit_code, found, attempted, outcomes, first_original, last>>

renameVars == <<rpc, directory, directory_before, dry_run, renamed_files, ridx,
                renamed_count, attempt>>

vars == <<callVars, mainVars, renameVars>>

inputs == <<video_suffix, container_streams, subtitle_files>>

NoLast == [name |-> "", src |-> <<>>, out |-> <<>>, before |-> Absent, remux |-> "none",
           status |-> "none", has_spanish |-> FALSE]

NoAttempt == [src |-> "", dst |-> "", verdict |-> "none", occupied |-> FALSE]

\* rename_media.main has not run
RenameIdle ==
    /\ rpc = "idle"
    /\ directory = [n \in RenameNames |-> NoFile]
    /\ directory_before = directory
    /\ dry_run = FALSE
    /\ renamed_files = <<>>
    /\ ridx = 1
    /\ renamed_count = 0
    /\ attempt = NoAttempt

\* no earlier call of embed_subtitles_into_video
NoPrev == [called |-> FALSE, existing |-> <<>>, files |-> <<>>,
           plan |-> [isNoOp |-> FALSE, slots |-> <<>>]]

\* one call of embed_subtitles_into_video has not started
CallIdle ==
    /\ prev = NoPrev
    /\ pc = "call"
    /\ probe = "none"
    /\ existing_subs = <<>>
    /\ all_subs = <<>>
    /\ cmd_slots = <<>>
    /\ copied = FALSE
    /\ ffmpeg_ran = FALSE
    /\ result = "none"

\* main has not run
MainIdle ==
    /\ mpc = "idle"
    /\ video_files = <<>>
    /\ idx = 1
    /\ success_count = 0
    /\ exit_code = -1
    /\ found = {}
    /\ attempted = <<>>
    /\ outcomes = <<>>
    /\ first_original = [n \in Names |-> Absent]
    /\ last = NoLast

Init ==
    /\ CallIdle
    /\ RenameIdle
    /\ video_suffix \in Suffixes
    /\ container_streams \in SeqUpTo(RawTags, MaxExisting)
    /\ subtitle_files \in SubtitleDicts
    /\ MainIdle
    /\ fs = [p \in Paths |-> Absent]
    /\ srt = {}

\* line 312: existing_subs = get_embedded_subtitles(str(video_path))
Probe ==
    /\ pc = "call"
    /\ \E outcome \in ProbeOutcomes :
         LET r == get_embedded_subtitles(container_streams, outcome)
         IN /\ probe' = outcome
            /\ existing_subs' = r.value
            /\ pc' = IF r.raised THEN "raised" ELSE "probed"
            /\ result' = IF r.raised THEN "raised" ELSE result
    /\ UNCHANGED <<inputs, prev, all_subs, cmd_slots, copied, ffmpeg_ran, mainVars, renameVars>>

\* lines 320-328: nothing to add and nothing to reorder, copy and return True
EarlyCopy ==
    /\ pc = "probed"
    /\ early_copy(existing_subs, subtitle_files)
    /\ copied' = TRUE
    /\ result' = "True"
    /\ pc' = "returned"
    /\ UNCHANGED <<inputs, prev, probe, existing_subs, all_subs, cmd_slots, ffmpeg_ran, mainVars, renameVars>>

\* lines 330-375: collect the inputs and the ordered list of subtitle sources
BuildPlan ==
    /\ pc = "probed"
    /\ ~early_copy(existing_subs, subtitle_files)
    /\ all_subs' = list_sort(all_subs_initial(all_subs)
                            \o existing_items(existing_subs, subtitle_files)
                            \o new_items(subtitle_files))
    /\ pc' = "sorted"
    /\ UNCHANGED <<inputs, prev, probe, existing_subs, cmd_slots, copied, ffmpeg_ran, result,
                   mainVars, renameVars>>

\* lines 377-379: nothing left to map, copy and return True
EmptyPlanCopy ==
    /\ pc = "sorted"
    /\ plan_is_empty(all_subs)
    /\ copied' = TRUE
    /\ result' = "True"
    /\ pc' = "returned"
    /\ UNCHANGED <<inputs, prev, probe, existing_subs, all_subs, cmd_slots, ffmpeg_ran, mainVars, renameVars>>

\* lines 381-421: finish the command and run ffmpeg; ok = return code 0
RunFfmpeg ==
    /\ pc = "sorted"
    /\ ~plan_is_empty(all_subs)
    /\ cmd_slots' = command_slots(all_subs, new_sub_codec(video_suffix))
    /\ ffmpeg_ran' = TRUE
    /\ \E ok \in BOOLEAN : result' = IF ok THEN "True" ELSE "False"
    /\ pc' = "returned"
    /\ UNCHANGED <<inputs, prev, probe, existing_subs, all_subs, copied, mainVars, renameVars>>

Next == Probe \/ EarlyCopy \/ BuildPlan \/ EmptyPlanCopy \/ RunFfmpeg

Spec == Init /\ [][Next]_vars

\* ------------------------------------------------- two calls on one video
\* the streams of the video that is embedded twice
TwiceStreams == {<<>>, <<"eng">>, <<"spa", "eng">>, <<"eng", "spa">>,
                 <<"eng", "SPA", NoTag>>}

\* what the call decided: copy or remux, and the slots of the command
plan_of_call == [isNoOp |-> copied, slots |-> IF ffmpeg_ran THEN cmd_slots ELSE <<>>]

InitTwice ==
    /\ CallIdle
    /\ RenameIdle
    /\ video_suffix \in Suffixes
    /\ container_streams \in TwiceStreams
    /\ subtitle_files \in SubtitleDicts
    /\ MainIdle
    /\ fs = [p \in Paths |-> Absent]
    /\ srt = {}

\* lines 295-299: the function is called again with the same video and the
\* same map; files of the map may have appeared or gone in between
CallAgain ==
    /\ pc = "returned"
    /\ ~prev.called
    /\ prev' = [called |-> TRUE, existing |-> existing_subs,
                files |-> subtitle_files, plan |-> plan_of_call]
    /\ subtitle_files' \in
         {d \in SubtitleDicts :
            /\ Len(d) = Len(subtitle_files)
            /\ \A i \in DOMAIN d : d[i].lang_code = subtitle_files[i].lang_code}
    /\ pc' = "call"
    /\ probe' = "none"
    /\ existing_subs' = <<>>
    /\ cmd_slots' = <<>>
    /\ copied' = FALSE
    /\ ffmpeg_ran' = FALSE
    /\ result' = "none"
    /\ UNCHANGED <<video_suffix, container_streams, all_subs, mainVars, renameVars>>

NextTwice == Next \/ CallAgain

SpecTwice == InitTwice /\ [][NextTwice]_vars

\* ------------------------------------------------------------------- main
VideoNames == {n \in Names : Lower(Suffix(n)) \in VIDEO_EXTENSIONS}

\* the subtitle streams a video of the batch starts with
VideoStreamChoices == {<<>>, <<"eng">>, <<"eng", "spa">>}

\* a target directory before the first run: videos and their sidecars
InitMain ==
    /\ CallIdle
    /\ RenameIdle
    /\ video_suffix = ".mkv"
    /\ container_streams = <<>>
    /\ subtitle_files = <<>>
    /\ MainIdle
    /\ fs \in {f \in [Paths -> {Absent} \cup {Original(t) : t \in VideoStreamChoices}] :
                /\ \A n \in Names : f[<<"Originals", n>>] = Absent
                /\ f[<<"target", "c.txt">>] = Original(<<>>)}
    /\ srt \in SUBSET {t \in {"target"} \X VideoNames \X TARGET_LANGUAGES :
                         fs[<<"target", t[2]>>] # Absent}

\* lines 506-514: the argument is no directory, return 1
MainBadDirectory ==
    /\ mpc # "loop"
    /\ mpc' = "rejected"
    /\ exit_code' = 1
    /\ video_files' = <<>>
    /\ found' = {}
    /\ idx' = 1
    /\ success_count' = 0
    /\ attempted' = <<>>
    /\ outcomes' = <<>>
    /\ last' = NoLast
    /\ UNCHANGED <<fs, srt, first_original, callVars, renameVars>>

\* lines 525-544: list the videos; with none, return 0
MainStart ==
    /\ mpc # "loop"
    /\ video_files' = list_video_files(fs)
    /\ found' = {n \in VideoNames : fs[<<"target", n>>] # Absent}
    /\ mpc' = IF video_files' = <<>> THEN "returned" ELSE "loop"
    /\ exit_code' = IF video_files' = <<>> THEN 0 ELSE -1
    /\ idx' = 1
    /\ success_count' = 0
    /\ attempted' = <<>>
    /\ outcomes' = <<>>
    /\ last' = NoLast
    /\ UNCHANGED <<fs, srt, first_original, callVars, renameVars>>

\* lines 553-556: the sidecars of the video follow it to Originals/
move_sidecars(srt_files, name) ==
    {t \in srt_files : ~(t[1] = "target" /\ t[2] = name)}
    \cup {<<originals_dir, name, t[3]>> : t \in {u \in srt_files : u[1] = "target" /\ u[2] = name}}

\* lines 546-566: one video of the loop; an exception ends this video only
MainIterate ==
    /\ mpc = "loop"
    /\ idx <= Len(video_files)
    /\ LET name == video_files[idx]
           video_path == <<"target", name>>
           original_in_originals == <<originals_dir, name>>
       IN /\ \/ \* shutil.move raises
                /\ UNCHANGED <<fs, srt, success_count, first_original>>
                /\ outcomes' = Append(outcomes, "exception")
                /\ last' = [name |-> name, src |-> original_in_originals, out |-> <<>>,
                            before |-> fs[video_path], remux |-> "none",
                            status |-> "exception", has_spanish |-> FALSE]
             \/ \E o \in process_video(move(fs, video_path, original_in_originals),
                                       move_sidecars(srt, name),
                                       original_in_originals,
                                       main_output_dir, backup_dir_of_main) :
                /\ fs' = o.fs
                /\ srt' = o.srt
                /\ success_count' = IF o.status = "ok" THEN success_count + 1
                                    ELSE success_count
                /\ outcomes' = Append(outcomes, o.status)
                /\ first_original' =
                     IF first_original[name] = Absent
                     THEN [first_original EXCEPT ![name] = fs[video_path]]
                     ELSE first_original
                /\ last' = [name |-> name, src |-> original_in_originals, out |-> o.out,
                            before |-> fs[video_path], remux |-> o.remux,
                            status |-> o.status, has_spanish |-> o.has_spanish]
          /\ attempted' = Append(attempted, name)
    /\ idx' = idx + 1
    /\ UNCHANGED <<mpc, video_files, exit_code, found, callVars, renameVars>>

\* lines 568-583: the summary and the exit code
MainFinish ==
    /\ mpc = "loop"
    /\ idx > Len(video_files)
    /\ exit_code' = exit_code_of(success_count, Len(video_files))
    /\ mpc' = "returned"
    /\ UNCHANGED <<fs, srt, video_files, idx, success_count,
                   found, attempted, outcomes, first_original, last, callVars, renameVars>>

NextMain == MainBadDirectory \/ MainStart \/ MainIterate \/ MainFinish

SpecMain == InitMain /\ [][NextMain]_vars

\* ------------------------------------------- process_video on its own
\* videos in Originals/, their sidecars beside them, nothing written yet
InitVideo ==
    /\ CallIdle
    /\ RenameIdle
    /\ video_suffix = ".mkv"
    /\ container_streams = <<>>
    /\ subtitle_files = <<>>
    /\ MainIdle
    /\ fs \in {f \in [Paths -> {Absent} \cup {Original(t) : t \in VideoStreamChoices}] :
                /\ \A n \in Names : f[<<"target", n>>] = Absent
                /\ \A n \in VideoNames : f[<<originals_dir, n>>] # Absent
                /\ f[<<originals_dir, "c.txt">>] = Absent}
    /\ srt \in SUBSET ({originals_dir} \X {"a.mkv"} \X TARGET_LANGUAGES)

\* lines 424-497: process_video(video_path, output_dir, backup_dir), called
\* for a video of Originals/ as often as the caller likes
ProcessVideoCall ==
    \E name \in VideoNames :
      \E o \in process_video(fs, srt, <<originals_dir, name>>,
                             main_output_dir, backup_dir_of_main) :
        /\ fs' = o.fs
        /\ srt' = o.srt
        /\ last' = [name |-> name, src |-> <<originals_dir, name>>, out |-> o.out,
                    before |-> fs[<<originals_dir, name>>], remux |-> o.remux,
                    status |-> o.status, has_spanish |-> o.has_spanish]
        /\ UNCHANGED <<mpc, video_files, idx, success_count, exit_code, found,
                       attempted, outcomes, first_original, callVars, renameVars>>

NextVideo == ProcessVideoCall

SpecVideo == InitVideo /\ [][NextVideo]_vars

\* ------------------------------------------------------ rename_media.main
\* a directory of files, each holding its own content, before main runs
InitRename ==
    /\ CallIdle
    /\ video_suffix = ".mkv"
    /\ container_streams = <<>>
    /\ subtitle_files = <<>>
    /\ MainIdle
    /\ fs = [p \in Paths |-> Absent]
    /\ srt = {}
    /\ rpc = "idle"
    /\ directory \in {d \in [RenameNames -> RenameNames \cup {NoFile}] :
                       \A n \in RenameNames : d[n] \in {n, NoFile}}
    /\ directory_before = directory
    /\ dry_run \in BOOLEAN
    /\ renamed_files = <<>>
    /\ ridx = 1
    /\ renamed_count = 0
    /\ attempt = NoAttempt

\* lines 246-252: the argument is no directory, return 1
RenameBadDirectory ==
    /\ rpc = "idle"
    /\ rpc' = "rejected"
    /\ UNCHANGED <<directory, directory_before, dry_run, renamed_files, ridx,
                   renamed_count, attempt, callVars, mainVars>>

\* lines 264-276: list the video files; with none, return 0
RenameStart ==
    /\ rpc = "idle"
    /\ renamed_files' = find_video_files(directory)
    /\ rpc' = IF renamed_files' = <<>> THEN "returned" ELSE "loop"
    /\ ridx' = 1
    /\ renamed_count' = 0
    /\ UNCHANGED <<directory, directory_before, dry_run, attempt, callVars, mainVars>>

\* lines 278-286: process_file for the next file of the list
RenameProcessFile ==
    /\ rpc = "loop"
    /\ ridx <= Len(renamed_files)
    /\ \E new_name \in new_names(renamed_files[ridx]), os_error \in BOOLEAN :
         LET file_name == renamed_files[ridx]
             r == process_file(directory, file_name, new_name, dry_run, os_error)
         IN /\ directory' = r.dir
            /\ renamed_count' = IF r.renamed THEN renamed_count + 1 ELSE renamed_count
            /\ attempt' = [src |-> file_name, dst |-> new_name, verdict |-> r.verdict,
                           occupied |-> new_name # NoName /\ new_name # file_name
                                        /\ directory[new_name] # NoFile]
    /\ ridx' = ridx + 1
    /\ UNCHANGED <<rpc, directory_before, dry_run, renamed_files, callVars, mainVars>>

\* lines 288-292: the summary, return 0
RenameFinish ==
    /\ rpc = "loop"
    /\ ridx > Len(renamed_files)
    /\ rpc' = "returned"
    /\ UNCHANGED <<directory, directory_before, dry_run, renamed_files, ridx,
                   renamed_count, attempt, callVars, mainVars>>

NextRename == RenameBadDirectory \/ RenameStart \/ RenameProcessFile \/ RenameFinish

SpecRename == InitRename /\ [][NextRename]_vars

\* ------------------------------------------------- properties of one call
KeysOf(files) == {files[i].lang_code : i \in DOMAIN files}
PresentKeys(files) == {files[i].lang_code : i \in {j \in DOMAIN files : files[j].exists}}

\* the ordered list of subtitle sources has been built
PlanBuilt == pc = "sorted" \/ (pc = "returned" /\ probe # "none" /\ ~copied)

\* some existing stream in Spanish is not superseded by a key of the map
SpanishSurvives ==
    \E i \in DOMAIN existing_subs :
        /\ Lower(existing_subs[i].language) = "spa"
        /\ "spa" \notin KeysOf(subtitle_files)

ExistingIn(subs, L) == {i \in DOMAIN subs : ~subs[i].is_new /\ subs[i].lang = L}
NewIn(subs, L) == {i \in DOMAIN subs : subs[i].is_new /\ subs[i].lang = L}

\* C1 as claimed: in a non-empty plan the first slot is Spanish whenever
\* Spanish survives among the existing streams or "spa" is a key of the map.
C1_PreferredFirstAnyKey ==
    (PlanBuilt /\ all_subs # <<>>
        /\ (SpanishSurvives \/ "spa" \in KeysOf(subtitle_files)))
    => all_subs[1].lang = "spa"

\* C1 amended: in a non-empty plan the first slot is Spanish whenever Spanish
\* survives among the existing streams or "spa" is a key of the map whose
\* subtitle file exists.
C1_PreferredFirst ==
    (PlanBuilt /\ all_subs # <<>>
        /\ (SpanishSurvives \/ "spa" \in PresentKeys(subtitle_files)))
    => all_subs[1].lang = "spa"

C1_Witness ==
    /\ pc = "returned" /\ ffmpeg_ran
    /\ "spa" \in PresentKeys(subtitle_files)
    /\ Len(existing_subs) >= 1 /\ Lower(existing_subs[1].language) = "eng"
    /\ Len(all_subs) >= 2
    /\ all_subs[1].lang = "spa" /\ all_subs[1].is_new
    /\ all_subs[2].lang = "eng" /\ ~all_subs[2].is_new

\* C2 as claimed: for every key L of the map the plan has no existing stream
\* of language L and exactly one new source of language L.
C2_SupersessionAnyKey ==
    PlanBuilt =>
        \A L \in KeysOf(subtitle_files) :
            /\ ExistingIn(all_subs, L) = {}
            /\ Cardinality(NewIn(all_subs, L)) = 1

\* C2 amended: for every key L of the map the plan has no existing stream of
\* language L; it has exactly one new source of language L when the file of L
\* exists, and none when it does not.
C2_Supersession ==
    PlanBuilt =>
        \A L \in KeysOf(subtitle_files) :
            /\ ExistingIn(all_subs, L) = {}
            /\ Cardinality(NewIn(all_subs, L)) =
                 (IF L \in PresentKeys(subtitle_files) THEN 1 ELSE 0)

C2_Witness ==
    /\ pc = "returned" /\ ffmpeg_ran
    /\ "eng" \in PresentKeys(subtitle_files)
    /\ \E i \in DOMAIN existing_subs : existing_subs[i].language = "eng"
    /\ \E i \in DOMAIN existing_subs : Lower(existing_subs[i].language) = "spa"
    /\ ExistingIn(all_subs, "eng") = {}
    /\ Cardinality(NewIn(all_subs, "eng")) = 1

NoOpCase ==
    /\ subtitle_files = <<>>
    /\ existing_subs = <<>> \/ Lower(existing_subs[1].language) = "spa"

\* C3: with an empty map and either no existing stream or a first existing
\* stream in Spanish (any letter case), the call copies the source, builds and
\* runs no remux command, and returns True.
C3_NoOpDetection ==
    (NoOpCase /\ pc \in {"probed", "sorted", "returned"}) =>
        /\ pc # "sorted"
        /\ ~ffmpeg_ran /\ cmd_slots = <<>> /\ all_subs = <<>>
        /\ pc = "probed" => ENABLED EarlyCopy
        /\ pc = "returned" => (copied /\ result = "True")

C3_Witness ==
    /\ pc = "returned" /\ copied /\ result = "True" /\ ~ffmpeg_ran
    /\ subtitle_files = <<>>
    /\ Len(existing_subs) = 2
    /\ existing_subs[1].language = "SPA"
    /\ existing_subs[2].language = "eng"

ReorderCase ==
    /\ subtitle_files = <<>>
    /\ \E i \in DOMAIN existing_subs : Lower(existing_subs[i].language) = "spa"
    /\ Lower(existing_subs[1].language) # "spa"

ExistingAsSlots ==
    [i \in DOMAIN existing_subs |->
       [origin |-> "Existing", index |-> existing_subs[i].stream_index,
        codec |-> "copy", language |-> Lower(existing_subs[i].language)]]

\* C4: with an empty map and Spanish among the existing streams but not first,
\* the call is not a no-op: the remux runs with only existing streams, all
\* copied, the Spanish ones first and the others after them in container order.
C4_ReorderOnly ==
    (ReorderCase /\ pc \in {"probed", "sorted", "returned"}) =>
        /\ ~copied
        /\ pc = "probed" => ~ENABLED EarlyCopy
        /\ pc = "sorted" => all_subs # <<>>
        /\ pc = "returned" =>
             /\ ffmpeg_ran
             /\ cmd_slots =
                  SelectSeq(ExistingAsSlots, LAMBDA s : s.language = "spa")
                  \o SelectSeq(ExistingAsSlots, LAMBDA s : s.language # "spa")

\* existing [eng@0, spa@1] gives [existing 1 spa copy, existing 0 eng copy]
C4_Witness ==
    /\ pc = "returned" /\ ffmpeg_ran
    /\ subtitle_files = <<>>
    /\ container_streams = <<"eng", "spa">>
    /\ cmd_slots =
         << [origin |-> "Existing", index |-> 1, codec |-> "copy", language |-> "spa"],
            [origin |-> "Existing", index |-> 0, codec |-> "copy", language |-> "eng"] >>

\* C5: two existing streams of the plan that are both not Spanish keep the
\* relative order of their positions in the container.
C5_OrderPreservation ==
    PlanBuilt =>
        \A i, j \in DOMAIN all_subs :
            (/\ i < j
             /\ ~all_subs[i].is_new /\ ~all_subs[j].is_new
             /\ all_subs[i].lang # "spa" /\ all_subs[j].lang # "spa")
            => all_subs[i].stream_idx < all_subs[j].stream_idx

C5_Witness ==
    /\ pc = "returned" /\ ffmpeg_ran
    /\ Len(all_subs) = 3
    /\ all_subs[1].lang = "spa"
    /\ ~all_subs[2].is_new /\ all_subs[2].lang = "eng" /\ all_subs[2].stream_idx = 0
    /\ ~all_subs[3].is_new /\ all_subs[3].lang = "und" /\ all_subs[3].stream_idx = 2

\* C6: a slot of a new subtitle file is encoded as mov_text when the video's
\* suffix is .mp4 in any letter case and as srt otherwise; a slot of an
\* existing stream is copied, whatever the container.
C6_CodecMapping ==
    \A i \in DOMAIN cmd_slots :
        /\ cmd_slots[i].origin = "New" =>
             cmd_slots[i].codec =
               (IF video_suffix \in {".mp4", ".MP4"} THEN "mov_text" ELSE "srt")
        /\ cmd_slots[i].origin = "Existing" => cmd_slots[i].codec = "copy"

C6_Witness ==
    /\ pc = "returned" /\ ffmpeg_ran
    /\ video_suffix = ".MP4"
    /\ \E i \in DOMAIN cmd_slots :
         cmd_slots[i].origin = "New" /\ cmd_slots[i].codec = "mov_text"
    /\ \E i \in DOMAIN cmd_slots :
         cmd_slots[i].origin = "Existing" /\ cmd_slots[i].codec = "copy"

\* C7: whatever way the probe fails (non-zero exit, tool cannot run, output
\* that is not JSON), get_embedded_subtitles raises nothing and returns [].
C7_LenientInventory ==
    probe \in {"nonzero", "notfound", "malformed"} =>
        (pc # "raised" /\ existing_subs = <<>>)

\* ------------------------------------------------- properties of the batch
Rank(n) == CHOOSE i \in DOMAIN NameOrder : NameOrder[i] = n

\* C8: the path the remux or the no-op copy writes is never the path of the
\* source it reads, and after a failed remux the source in Originals/ has the
\* content the video had before it was processed.
C8_NeverInPlace ==
    /\ last.remux \in {"copy", "ok", "failed"} => last.out # last.src
    /\ last.remux = "failed" => fs[last.src] = last.before

C8_Witness ==
    /\ last.remux = "failed"
    /\ last.src = <<"Originals", "a.mkv">>
    /\ last.out = <<"target", "a.mkv">>
    /\ fs[last.out] = Partial
    /\ last.before = Original(<<"eng">>)
    /\ fs[last.src] = last.before

\* C9: whatever runs of main came before, failed ones included, Originals/
\* still holds for each video the file that the first run moved there.
C9_SafeRetry ==
    \A n \in Names :
        first_original[n] # Absent => fs[<<"Originals", n>>] = first_original[n]

\* C10: a run over a directory attempts each video found there once, in sorted
\* order, whatever happens to the videos before it, and returns 0 exactly when
\* every video was processed successfully, 1 otherwise.
C10_BatchTolerance ==
    /\ mpc \in {"loop", "returned"} =>
         /\ {video_files[i] : i \in DOMAIN video_files} = found
         /\ \A i, j \in DOMAIN video_files :
              i < j => Rank(video_files[i]) < Rank(video_files[j])
         /\ attempted = SubSeq(video_files, 1, idx - 1)
         /\ Len(outcomes) = Len(attempted)
    /\ mpc = "loop" => ENABLED (MainIterate \/ MainFinish)
    /\ mpc = "returned" =>
         /\ attempted = video_files
         /\ exit_code = (IF \A i \in DOMAIN outcomes : outcomes[i] = "ok" THEN 0 ELSE 1)

C10_Witness ==
    /\ mpc = "returned"
    /\ video_files = <<"a.mkv", "b.MP4">>
    /\ attempted = video_files
    /\ outcomes = <<"exception", "ok">>
    /\ exit_code = 1

\* ------------------------------------------- more properties of one call
\* the map without the entries whose file does not exist
WithoutMissing(files) == SelectSeq(files, LAMBDA e : e.exists)

\* C11: an entry of the map whose file does not exist has no effect: the call
\* ends as it ends for the map without that entry (the same copy or the same
\* remux command).
C11_MissingSourceExcluded ==
    pc = "returned" =>
        LET usable == WithoutMissing(subtitle_files)
            plan == all_subs_of(existing_subs, usable)
        IN /\ copied = (early_copy(existing_subs, usable) \/ plan = <<>>)
           /\ ffmpeg_ran =>
                cmd_slots = command_slots(plan, new_sub_codec(video_suffix))

\* nothing is left to map: every existing stream is superseded by a key of
\* the map and no file of the map exists
NoCandidates ==
    /\ \A i \in DOMAIN existing_subs :
         Lower(existing_subs[i].language) \in KeysOf(subtitle_files)
    /\ PresentKeys(subtitle_files) = {}

\* C13: when no candidate slot is left after the supersession filter and the
\* collection of the new sources, the call is a no-op and not an error: it
\* copies the source, runs no remux command and returns True.
C13_DegenerateNoOp ==
    (NoCandidates /\ pc \in {"sorted", "returned"}) =>
        /\ ~ffmpeg_ran /\ cmd_slots = <<>>
        /\ pc = "sorted" => (ENABLED EmptyPlanCopy /\ ~ENABLED RunFfmpeg)
        /\ pc = "returned" => (copied /\ result = "True")

C13_Witness ==
    /\ pc = "returned" /\ copied /\ result = "True" /\ ~ffmpeg_ran
    /\ Len(existing_subs) = 2
    /\ subtitle_files # <<>>
    /\ \A i \in DOMAIN subtitle_files : ~subtitle_files[i].exists
    /\ NoCandidates

\* the insertion-order list: the existing streams that are not superseded, in
\* container order, then the new sources that became inputs, in map order
Survivors ==
    SelectSeq([i \in DOMAIN existing_subs |->
                 [origin |-> "Existing", index |-> existing_subs[i].stream_index,
                  language |-> Lower(existing_subs[i].language)]],
              LAMBDA s : s.language \notin KeysOf(subtitle_files))

NewSources ==
    LET usable == WithoutMissing(subtitle_files)
    IN [i \in DOMAIN usable |->
          [origin |-> "New", index |-> i, language |-> usable[i].lang_code]]

InsertionOrder == Survivors \o NewSources

\* the stable sort by the key 0 for Spanish, 1 otherwise
StableByPreference(s) ==
    SelectSeq(s, LAMBDA x : x.language = "spa")
    \o SelectSeq(s, LAMBDA x : x.language # "spa")

SlotSources ==
    [i \in DOMAIN cmd_slots |->
       [origin |-> cmd_slots[i].origin, index |-> cmd_slots[i].index,
        language |-> cmd_slots[i].language]]

\* C14: in a call that remuxes, the slots are the insertion-order list sorted
\* stably by the key 0 for Spanish, 1 otherwise; so within the Spanish slots
\* and within the others every existing stream precedes every new source, and
\* without Spanish the first slot is the first of the insertion-order list.
C14_FullOrdering ==
    (pc = "returned" /\ ffmpeg_ran) =>
        /\ SlotSources = StableByPreference(InsertionOrder)
        /\ \A i, j \in DOMAIN cmd_slots :
             (/\ i < j
              /\ (cmd_slots[i].language = "spa") = (cmd_slots[j].language = "spa"))
             => ~(cmd_slots[i].origin = "New" /\ cmd_slots[j].origin = "Existing")
        /\ (\A i \in DOMAIN InsertionOrder : InsertionOrder[i].language # "spa")
             => SlotSources[1] = InsertionOrder[1]

C14_Witness ==
    /\ pc = "returned" /\ ffmpeg_ran
    /\ Len(cmd_slots) = 4
    /\ cmd_slots[1].origin = "New" /\ cmd_slots[1].language = "spa"
    /\ cmd_slots[1].index = 2
    /\ cmd_slots[2].origin = "Existing" /\ cmd_slots[2].index = 0
    /\ cmd_slots[3].origin = "Existing" /\ cmd_slots[3].index = 2
    /\ cmd_slots[4].origin = "New" /\ cmd_slots[4].language = "eng"
    /\ cmd_slots[4].index = 1

\* ----------------------------------------------- properties of two calls
LangCodes(files) == [i \in DOMAIN files |-> files[i].lang_code]

C15_SpanishGuarantee ==
    (last.status = "ok" /\ last.has_spanish) =>
        LET output == fs[<<main_output_dir, last.name>>]
        IN /\ output.kind \in {"original", "remuxed"}
           /\ output.subs # <<>>
           /\ output.subs[1] = "spa"

\* ------------------------------------------- properties of rename_media
ContentsOf(d) == {d[n] : n \in RenameNames} \ {NoFile}
FilesOf(d) == {n \in RenameNames : d[n] # NoFile}

\* C16: over the process_file calls of one run of rename_media.main a file is
\* renamed only when no other file is at the target name, every content the
\* directory held is still there under exactly one name, also when two
\* sources map to the same new name, and with dry_run nothing is renamed.
C16_RenameNeverDestroys ==
    /\ ContentsOf(directory) = ContentsOf(directory_before)
    /\ Cardinality(FilesOf(directory)) = Cardinality(FilesOf(directory_before))
    /\ attempt.verdict = "renamed" => ~attempt.occupied
    /\ dry_run => directory = directory_before

\* two sources map to the same new name: the first took it, the second stays
C16_Witness ==
    /\ rpc = "returned" /\ ~dry_run
    /\ directory_before["a.mkv"] = "a.mkv" /\ directory_before["b.mkv"] = "b.mkv"
    /\ directory["T.mkv"] = "a.mkv"
    /\ directory["b.mkv"] = "b.mkv"
    /\ attempt = [src |-> "b.mkv", dst |-> "T.mkv", verdict |-> "target exists",
                  occupied |-> TRUE]
    /\ renamed_count = 1

====
